---- MODULE Spec2Model ----
(***************************************************************************)
(* The sales ledger of backSistemaViajes (src/sales): tickets, payments,   *)
(* refunds and receipts kept in a PostgreSQL database (READ COMMITTED),    *)
(* and the seven service operations of src/sales/services.py, each one     *)
(* transaction using row locks (SELECT ... FOR UPDATE).                    *)
(*                                                                         *)
(* The committed database is the four sequences tickets, payments, refunds *)
(* and receipts (a row's id is its index).  A transaction is a process     *)
(* that walks through the statements of its service function: a step that  *)
(* takes a row lock waits until the lock is free, a transaction's writes   *)
(* become visible to the others at its commit step, and a transaction that *)
(* raises is rolled back (nothing is written, its locks are released).     *)
(* Amounts are whole numbers of money units.                               *)
(*                                                                         *)
(* Eight specifications share the actions: Spec, the ledger of one booking *)
(* (payments, confirmations, refunds); SpecBooking, the bookings of a seat *)
(* with one payment and one refund; SpecIdem, payment requests that carry  *)
(* a transaction id; SpecReceipt, the receipts of the payments and their   *)
(* post-commit artifact callback; SpecFair, the seven operations on one    *)
(* booking under fair scheduling; SpecEndpoint, the bookings and payments  *)
(* together with the update and destroy routes of the ticket endpoint;     *)
(* SpecInitial, one booking created with any initial status; SpecRepay,    *)
(* one booking paid in up to three parts, with one refund.                 *)
(* A ninth, SpecBus, is the creation of buses with generated codes         *)
(* (create_bus_with_code of src/catalog/utils.py).                         *)
(***************************************************************************)
EXTENDS Integers, Sequences, FiniteSets, TLC

\* ---------------------------------------------------------------- bounds
NumProcs == 2
MaxTickets == 3
MaxPayments == 2
MaxRefunds == 2
LedgerTickets == 1
BookingPayments == 1
BookingRefunds == 1
MaxBuses == 4
FleetSize == 9998
RepayPayments == 3

Procs == 1..NumProcs
None == 0

\* ------------------------------------------------------- status constants
RESERVED == "RESERVED"
PAID == "PAID"
CANCELLED == "CANCELLED"
NO_SHOW == "NO_SHOW"

PENDING == "PENDING"
CONFIRMED == "CONFIRMED"
FAILED == "FAILED"
PARTIALLY_REFUNDED == "PARTIALLY_REFUNDED"
REFUNDED == "REFUNDED"
ConfirmedClass == {CONFIRMED, PARTIALLY_REFUNDED, REFUNDED}

\* ------------------------------------------------- catalog (read only here)
\* One departure of bus 1 on a route whose stops are offices 1, 2, 3 in that
\* order; office 4 is not on the route.  Seat 1 is an active seat of
\* bus 1, seat 2 an inactive seat of bus 1, seat 3 an active seat of bus 2.
Departures == {1}
Seats == {1, 2, 3}
DepartureBus(dep) == 1
SeatBus(seat) == IF seat = 3 THEN 2 ELSE 1
SeatActive(seat) == seat # 2
RouteStops == {1, 2, 3}
StopOrder(office) == office

\* ------------------------------------------------------- inputs of the calls
ODPairs == {<<1, 2>>, <<2, 3>>, <<2, 1>>, <<1, 4>>}
BookingPrices == {-1, 2}
PayAmounts == {0, 1, 2, 3}
RefundAmounts == {0, 1, 2, 3}
TxIds == {None, 1}
ReceiptNumbers == {1, 2}
ReceiptTotals == {None, 0, 1, 3}

VARIABLES tickets, payments, refunds, receipts, buses, held, pc, arg, loc, res

vars == <<tickets, payments, refunds, receipts, buses, held, pc, arg, loc, res>>
db == <<tickets, payments, refunds, receipts, buses>>

NoArg == [op |-> "none"]
NoLoc == [k |-> "none"]
NoRes == [op |-> "none", out |-> "none", id |-> None, a |-> NoArg]

\* ---------------------------------------------------------------- helpers
RECURSIVE SumSeq(_, _, _)
\* Sum("amount") over the rows i of sequence s that satisfy keep(i).
SumSeq(s, keep(_), i) ==
  IF i > Len(s) THEN 0
  ELSE (IF keep(i) THEN s[i].amount ELSE 0) + SumSeq(s, keep, i + 1)

\* Ticket.amount_paid, over a given view of the payment and refund tables.
AmountPaidIn(pays, refs, t) ==
  LET total == SumSeq(pays, LAMBDA i : pays[i].ticket = t /\ pays[i].status \in ConfirmedClass, 1)
      refd == SumSeq(refs, LAMBDA i : pays[refs[i].payment].ticket = t /\ refs[i].status = CONFIRMED, 1)
  IN total - refd

AmountPaid(t) == AmountPaidIn(payments, refunds, t)

\* Ticket.amount_due
AmountDueIn(pays, refs, t) == tickets[t].price - AmountPaidIn(pays, refs, t)

AmountDue(t) == AmountDueIn(payments, refunds, t)

\* Payment.refunded_total, over a given view of the refund table.
RefundedTotalIn(refs, pm) ==
  SumSeq(refs, LAMBDA i : refs[i].payment = pm /\ refs[i].status = CONFIRMED, 1)

RefundedTotal(pm) == RefundedTotalIn(refunds, pm)

\* The amount of the payment, whatever was refunded before.
RefundableRemainingUnrefunded(pm) == payments[pm].amount

\* Payment.refundable_remaining
RefundableRemaining(pm) == payments[pm].amount - RefundedTotal(pm)

\* timezone.now(): a logical time that grows with every row written.
Now == 1 + Len(payments) + Len(refunds)

\* A clean that accepts every ticket.
TicketCleanSkipped(dep, seat, o, d) == "ok"

\* Ticket.clean: the first rule that fails, or "ok".
TicketClean(dep, seat, o, d) ==
  IF DepartureBus(dep) # SeatBus(seat) THEN "SeatBusMismatch"
  ELSE IF o \notin RouteStops \/ d \notin RouteStops THEN "InvalidSubRoute"
  ELSE IF StopOrder(o) >= StopOrder(d) THEN "InvalidSubRoute"
  ELSE IF ~SeatActive(seat) THEN "SeatInactive"
  ELSE "ok"

\* validate_unique of Ticket.Meta.unique_together for a new row.
TicketNotUnique(dep, seat, o, d) ==
  \E i \in 1..Len(tickets) :
    /\ tickets[i].dep = dep /\ tickets[i].seat = seat
    /\ tickets[i].o = o /\ tickets[i].d = d

\* A save that writes the ticket as it is in memory.
TicketSaveAsIs(t, due) == t

\* Ticket.save: the status propagator applied to the in-memory ticket t whose
\* amount_due was read as due.
TicketSave(t, due) ==
  IF t.status # CANCELLED /\ due = 0 /\ t.paid_at = None
  THEN [t EXCEPT !.status = PAID, !.paid_at = Now]
  ELSE t

\* ------------------------------------------------------------------ locks
SeatLock(s) == <<"Seat", s>>
TicketLock(t) == <<"Ticket", t>>
PaymentLock(pm) == <<"Payment", pm>>

\* A row lock is granted when no other transaction holds it.
CanLock(p, l) == \A q \in Procs \ {p} : l \notin held[q]

\* A seat row read without waiting for its lock.
CanLockSeatUnlocked(p, s) == TRUE

\* select_for_update() on the Seat row of create_ticket_safe.
CanLockSeat(p, s) == CanLock(p, SeatLock(s))

\* ------------------------------------------------ calls begin, end, go on
\* A call begins: the results of the calls that ended before it are dropped,
\* so results that stand side by side belong to calls that overlapped.
Begin(p, a, first) ==
  /\ pc[p] = "idle"
  /\ pc' = [pc EXCEPT ![p] = first]
  /\ arg' = [arg EXCEPT ![p] = a]
  /\ res' = [q \in Procs |-> NoRes]
  /\ UNCHANGED <<db, held, loc>>

\* A call that ends while its transaction keeps its row locks.
FinishHolding(p, a, out, id) ==
  /\ pc' = [pc EXCEPT ![p] = "idle"]
  /\ res' = [res EXCEPT ![p] = [op |-> a.op, out |-> out, id |-> id, a |-> a]]
  /\ arg' = [arg EXCEPT ![p] = NoArg]
  /\ loc' = [loc EXCEPT ![p] = NoLoc]
  /\ held' = held

\* The call of p, with arguments a, returns (out = "ok", the row id) or raises
\* (out names the error): its transaction ends and its locks are freed.
Finish(p, a, out, id) ==
  /\ pc' = [pc EXCEPT ![p] = "idle"]
  /\ res' = [res EXCEPT ![p] = [op |-> a.op, out |-> out, id |-> id, a |-> a]]
  /\ arg' = [arg EXCEPT ![p] = NoArg]
  /\ loc' = [loc EXCEPT ![p] = NoLoc]
  /\ held' = [held EXCEPT ![p] = {}]

\* A call that raises while its transaction keeps its row locks.
RaiseHolding(p, a, out) == FinishHolding(p, a, out, None) /\ UNCHANGED db

\* A call whose error in the save cascade of a refund leaves the refund row
\* that was already written.
RaiseAfterWrite(p, a, out) ==
  /\ Finish(p, a, out, None)
  /\ IF a.op = "createRefund" /\ out \in {"TicketNotPayable", "Overpayment"}
     THEN /\ refunds' = Append(refunds, [payment |-> a.pm, amount |-> a.amount,
                                         status |-> IF a.confirm THEN CONFIRMED ELSE PENDING])
          /\ UNCHANGED <<tickets, payments, receipts, buses>>
     ELSE UNCHANGED db

\* The call raises: the transaction is rolled back.
Raise(p, a, out) == Finish(p, a, out, None) /\ UNCHANGED db

Goto(p, next) ==
  /\ pc' = [pc EXCEPT ![p] = next]
  /\ UNCHANGED <<arg, res>>

\* Ticket.objects.select_for_update().get(pk=...)
LockTicket(p, t, next) ==
  /\ CanLock(p, TicketLock(t))
  /\ held' = [held EXCEPT ![p] = @ \cup {TicketLock(t)}]
  /\ Goto(p, next)
  /\ UNCHANGED <<db, loc>>

\* Payment.objects.select_for_update().get(pk=payment_id)
LockPayment(p, pm, next) ==
  /\ CanLock(p, PaymentLock(pm))
  /\ held' = [held EXCEPT ![p] = @ \cup {PaymentLock(pm)}]
  /\ Goto(p, next)
  /\ UNCHANGED <<db, loc>>

\* ---------------------------------------------------------- createTicket
CreatingTicket == {q \in Procs : pc[q] \in {"ct_lock", "ct_check", "ct_save"}}

\* the existence check: a ticket of the pair that is not CANCELLED
ConflictExists(dep, seat) ==
  \E i \in 1..Len(tickets) :
    tickets[i].dep = dep /\ tickets[i].seat = seat /\ tickets[i].status # CANCELLED

\* A call of create_ticket_safe; the arguments are drawn where first read.
\* `free` notes, for the properties, whether the pair had no ticket other than
\* CANCELLED ones when the call was made.
CallCreateTicketIn(p, deps, seats, max) ==
  /\ Len(tickets) + Cardinality(CreatingTicket) < max
  /\ \E dep \in deps, seat \in seats :
       Begin(p, [op |-> "createTicket", dep |-> dep, seat |-> seat,
                 free |-> ~ConflictExists(dep, seat)], "ct_lock")

\* Seat.objects.select_for_update().get(pk=seat_id)
CtLock(p) ==
  /\ pc[p] = "ct_lock"
  /\ CanLockSeat(p, arg[p].seat)
  /\ held' = [held EXCEPT ![p] = @ \cup {SeatLock(arg[p].seat)}]
  /\ Goto(p, "ct_check")
  /\ UNCHANGED <<db, loc>>

CtCheck(p) ==
  /\ pc[p] = "ct_check"
  /\ IF ConflictExists(arg[p].dep, arg[p].seat)
     THEN Raise(p, arg[p], "SeatUnavailable")
     ELSE Goto(p, "ct_save") /\ UNCHANGED <<db, held, loc>>

\* t.full_clean(): Ticket.clean, then validate_unique; "ok" when both pass.
TicketFullClean(dep, seat, o, d) ==
  IF TicketClean(dep, seat, o, d) # "ok" THEN TicketClean(dep, seat, o, d)
  ELSE IF TicketNotUnique(dep, seat, o, d) THEN "TicketNotUnique"
  ELSE "ok"

\* t.full_clean(); t.save(); commit
CtSaveIn(p, ods, prices, sts) ==
  /\ pc[p] = "ct_save"
  /\ \E od \in ods, price \in prices, st \in sts :
       LET a == [op |-> "createTicket", dep |-> arg[p].dep, seat |-> arg[p].seat,
                 free |-> arg[p].free, o |-> od[1], d |-> od[2], price |-> price, st |-> st]
           err == TicketFullClean(a.dep, a.seat, a.o, a.d)
           new == [dep |-> a.dep, seat |-> a.seat, o |-> a.o, d |-> a.d, price |-> a.price,
                   status |-> a.st, paid_at |-> None]
       IN IF err # "ok" THEN Raise(p, a, err)
          ELSE /\ tickets' = Append(tickets, TicketSave(new, a.price))
               /\ Finish(p, a, "ok", Len(tickets) + 1)
               /\ UNCHANGED <<payments, refunds, receipts, buses>>

\* ---------------------------------------------------------- cancelTicket
CallCancelTicket(p) ==
  \E t \in 1..Len(tickets) : Begin(p, [op |-> "cancelTicket", t |-> t], "cn_lock")

CnLock(p) == pc[p] = "cn_lock" /\ LockTicket(p, arg[p].t, "cn_body")

\* A cancellation that does not look at the balance.
CnBodyUnchecked(p) ==
  LET t == arg[p].t
  IN /\ pc[p] = "cn_body"
     /\ tickets' = [tickets EXCEPT ![t].status = CANCELLED]
     /\ Finish(p, arg[p], "ok", t)
     /\ UNCHANGED <<payments, refunds, receipts, buses>>

CnBody(p) ==
  LET t == arg[p].t
  IN /\ pc[p] = "cn_body"
     /\ IF tickets[t].status = CANCELLED THEN Finish(p, arg[p], "ok", t) /\ UNCHANGED db
        ELSE IF AmountPaid(t) > 0 THEN Raise(p, arg[p], "UnrefundedBalance")
        ELSE /\ tickets' = [tickets EXCEPT ![t].status = CANCELLED]
             /\ Finish(p, arg[p], "ok", t)
             /\ UNCHANGED <<payments, refunds, receipts, buses>>

\* ------------------------------------------------------------- markNoShow
CallMarkNoShow(p) ==
  \E t \in 1..Len(tickets) : Begin(p, [op |-> "markNoShow", t |-> t], "ns_lock")

NsLock(p) == pc[p] = "ns_lock" /\ LockTicket(p, arg[p].t, "ns_body")

\* A no-show mark that does not look at the status of the ticket.
NsBodyUnchecked(p) ==
  LET t == arg[p].t
      mem == TicketSave([tickets[t] EXCEPT !.status = NO_SHOW], AmountDue(t))
  IN /\ pc[p] = "ns_body"
     /\ tickets' = [tickets EXCEPT ![t].status = mem.status]
     /\ Finish(p, arg[p], "ok", t)
     /\ UNCHANGED <<payments, refunds, receipts, buses>>

\* ticket.status = NO_SHOW; ticket.save(update_fields=["status"]): Ticket.save
\* runs the propagator on the in-memory ticket and only status is written.
NsBody(p) ==
  LET t == arg[p].t
      mem == TicketSave([tickets[t] EXCEPT !.status = NO_SHOW], AmountDue(t))
  IN /\ pc[p] = "ns_body"
     /\ IF tickets[t].status = CANCELLED THEN Raise(p, arg[p], "InvalidStateTransition")
        ELSE /\ tickets' = [tickets EXCEPT ![t].status = mem.status]
             /\ Finish(p, arg[p], "ok", t)
             /\ UNCHANGED <<payments, refunds, receipts, buses>>

\* ------------------------------------------------- the ticket endpoint
\* The statuses a request may write (Ticket.STATUS_CHOICES).
TicketStatuses == {RESERVED, PAID, CANCELLED, NO_SHOW}

\* PATCH /tickets/{id}/ with a status (TicketViewSet is a ModelViewSet, status
\* is a writable field of TicketWriteSerializer): the serializer's update sets
\* paid_at for a PAID status without one, then the ticket is saved
\* (Ticket.save).  The request is taken as one step, made when no transaction
\* holds the lock of the row.
UpdateTicket(p) ==
  /\ pc[p] = "idle"
  /\ \E t \in 1..Len(tickets), st \in TicketStatuses :
       LET inst == tickets[t]
           set == [inst EXCEPT !.status = st,
                               !.paid_at = IF st = PAID /\ inst.paid_at = None
                                           THEN Now ELSE inst.paid_at]
           a == [op |-> "updateTicket", t |-> t, st |-> st]
       IN /\ CanLock(p, TicketLock(t))
          /\ tickets' = [tickets EXCEPT ![t] = TicketSave(set, AmountDue(t))]
          /\ res' = [q \in Procs |-> IF q = p THEN [op |-> a.op, out |-> "ok", id |-> t, a |-> a]
                                      ELSE NoRes]
          /\ UNCHANGED <<payments, refunds, receipts, buses, held, pc, arg, loc>>

\* DELETE /tickets/{id}/ (ModelViewSet.destroy): the row is deleted unless a
\* payment protects it (Payment.ticket is on_delete=PROTECT).  The request is
\* taken between the calls of the services, for the newest ticket.
DestroyTicket(p) ==
  /\ \A q \in Procs : pc[q] = "idle"
  /\ Len(tickets) > 0
  /\ LET t == Len(tickets)
         a == [op |-> "destroyTicket", t |-> t]
     IN IF \E i \in 1..Len(payments) : payments[i].ticket = t
        THEN /\ res' = [q \in Procs |-> IF q = p THEN [op |-> a.op, out |-> "ProtectedError",
                                                         id |-> None, a |-> a]
                                         ELSE NoRes]
             /\ UNCHANGED <<db, held, pc, arg, loc>>
        ELSE /\ tickets' = SubSeq(tickets, 1, t - 1)
             /\ res' = [q \in Procs |-> IF q = p THEN [op |-> a.op, out |-> "ok",
                                                         id |-> t, a |-> a]
                                         ELSE NoRes]
             /\ UNCHANGED <<payments, refunds, receipts, buses, held, pc, arg, loc>>

\* ---------------------------------------------------------- recordPayment
RecordingPayment == {q \in Procs : pc[q] \in {"rp_lock", "rp_body"}}

\* A lookup that finds no payment.
ExistingPaymentNone(txid) == None

\* Payment.objects.filter(transaction_id=...).first(), Meta.ordering = -created_at
ExistingPayment(txid) ==
  LET same == {i \in 1..Len(payments) : payments[i].txid = txid}
  IN IF txid = None \/ same = {} THEN None
     ELSE CHOOSE i \in same : \A j \in same : j <= i

\* A call of record_payment_safe up to its first statement, the idempotency
\* lookup, which is made before the ticket is locked.  A call that finds a
\* payment returns it, whatever its amount and confirm arguments.
CallRecordPaymentIn(p, txids, max) ==
  /\ pc[p] = "idle"
  /\ Len(payments) + Cardinality(RecordingPayment) < max
  /\ \E t \in 1..Len(tickets), txid \in txids :
       LET a == [op |-> "recordPayment", t |-> t, txid |-> txid]
       IN IF ExistingPayment(txid) # None
          THEN /\ \E amount \in PayAmounts, confirm \in BOOLEAN :
                    res' = [q \in Procs |->
                              IF q = p
                              THEN [op |-> a.op, out |-> "ok", id |-> ExistingPayment(txid),
                                    a |-> [op |-> a.op, t |-> t, txid |-> txid,
                                           amount |-> amount, confirm |-> confirm]]
                              ELSE NoRes]
               /\ UNCHANGED <<db, held, pc, arg, loc>>
          ELSE Begin(p, a, "rp_lock")

RpLock(p) == pc[p] = "rp_lock" /\ LockTicket(p, arg[p].t, "rp_body")

\* An overpayment rule that compares with the price only.
OverpaysPrice(amount, price, due) == amount > price

\* The overpayment rule of record_payment_safe, confirm_payment_safe and
\* Payment.clean for a confirmed-class payment.
Overpays(amount, price, due) == amount > price \/ amount > due

\* Payment.clean for a payment of ticket tk (as held in memory) whose other
\* confirmed payments and refunds leave `due`; "ok" when it passes.
PaymentClean(amount, status, tk, due) ==
  IF amount <= 0 THEN "InvalidPaymentAmount"
  ELSE IF tk.status \in {CANCELLED, NO_SHOW} THEN "TicketNotPayable"
  ELSE IF status \in ConfirmedClass /\ Overpays(amount, tk.price, due) THEN "Overpayment"
  ELSE "ok"

\* Checks of a payment that do not look at the status of the ticket.
RecordPaymentErrorAnyTicket(tk, due, amount, confirm) ==
  IF amount <= 0 THEN "InvalidPaymentAmount"
  ELSE IF confirm /\ Overpays(amount, tk.price, due) THEN "Overpayment"
  ELSE "ok"

\* The checks of record_payment_safe, in order; "ok" when the payment is saved.
RecordPaymentError(tk, due, amount, confirm) ==
  IF tk.status \in {CANCELLED, NO_SHOW} THEN "TicketNotPayable"
  ELSE IF confirm /\ Overpays(amount, tk.price, due) THEN "Overpayment"
  ELSE PaymentClean(amount, IF confirm THEN CONFIRMED ELSE PENDING, tk, due)

RpBodyIn(p, amounts) ==
  /\ pc[p] = "rp_body"
  /\ \E amount \in amounts, confirm \in BOOLEAN :
       LET a == [op |-> "recordPayment", t |-> arg[p].t, txid |-> arg[p].txid,
                 amount |-> amount, confirm |-> confirm]
           tk == tickets[a.t]
           err == RecordPaymentError(tk, AmountDue(a.t), a.amount, a.confirm)
           pay == [ticket |-> a.t, amount |-> a.amount, txid |-> a.txid,
                   status |-> IF a.confirm THEN CONFIRMED ELSE PENDING,
                   paid_at |-> IF a.confirm THEN Now ELSE None]
           pays2 == Append(payments, pay)
       IN IF err # "ok" THEN Raise(p, a, err)
          ELSE /\ payments' = pays2
               /\ tickets' = [tickets EXCEPT ![a.t] = TicketSave(tk, AmountDueIn(pays2, refunds, a.t))]
               /\ Finish(p, a, "ok", Len(pays2))
               /\ UNCHANGED <<refunds, receipts, buses>>

\* --------------------------------------------------------- confirmPayment
CallConfirmPayment(p) ==
  \E pm \in 1..Len(payments) : Begin(p, [op |-> "confirmPayment", pm |-> pm], "cf_lockp")

CfLockP(p) == pc[p] = "cf_lockp" /\ LockPayment(p, arg[p].pm, "cf_lockt")

CfLockT(p) == pc[p] = "cf_lockt" /\ LockTicket(p, payments[arg[p].pm].ticket, "cf_body")

\* Checks of a confirmation that do not look at the status of the ticket.
ConfirmPaymentErrorAnyTicket(pay, tk, due) ==
  IF pay.status = CONFIRMED THEN "noop"
  ELSE IF Overpays(pay.amount, tk.price, due) THEN "Overpayment"
  ELSE IF pay.amount <= 0 THEN "InvalidPaymentAmount"
  ELSE "ok"

\* Checks of a confirmation that do not look at the balance.
ConfirmPaymentErrorAnyBalance(pay, tk, due) ==
  IF tk.status \in {CANCELLED, NO_SHOW} THEN "TicketNotPayable"
  ELSE IF pay.status = CONFIRMED THEN "noop"
  ELSE "ok"

\* The checks of confirm_payment_safe; "noop" is the idempotent return.
ConfirmPaymentError(pay, tk, due) ==
  IF tk.status \in {CANCELLED, NO_SHOW} THEN "TicketNotPayable"
  ELSE IF pay.status = CONFIRMED THEN "noop"
  ELSE IF Overpays(pay.amount, tk.price, due) THEN "Overpayment"
  ELSE PaymentClean(pay.amount, CONFIRMED, tk, due)

\* A confirmation that stamps paid_at anew.
CfBodyRestamping(p) ==
  LET pm == arg[p].pm
      pay == payments[pm]
      t == pay.ticket
      tk == tickets[t]
      others == [payments EXCEPT ![pm].status = PENDING]
      err == ConfirmPaymentError(pay, tk, AmountDueIn(others, refunds, t))
      pays2 == [payments EXCEPT ![pm].status = CONFIRMED, ![pm].paid_at = Now + 1]
  IN /\ pc[p] = "cf_body"
     /\ IF err = "noop" THEN Finish(p, arg[p], "ok", pm) /\ UNCHANGED db
        ELSE IF err # "ok" THEN Raise(p, arg[p], err)
        ELSE /\ payments' = pays2
             /\ tickets' = [tickets EXCEPT ![t] = TicketSave(tk, AmountDueIn(pays2, refunds, t))]
             /\ Finish(p, arg[p], "ok", pm)
             /\ UNCHANGED <<refunds, receipts, buses>>

CfBody(p) ==
  LET pm == arg[p].pm
      pay == payments[pm]
      t == pay.ticket
      tk == tickets[t]
      \* the balance without this payment's own contribution
      others == [payments EXCEPT ![pm].status = PENDING]
      err == ConfirmPaymentError(pay, tk, AmountDueIn(others, refunds, t))
      pays2 == [payments EXCEPT ![pm].status = CONFIRMED,
                                ![pm].paid_at = IF pay.paid_at = None THEN Now ELSE pay.paid_at]
  IN /\ pc[p] = "cf_body"
     /\ IF err = "noop" THEN Finish(p, arg[p], "ok", pm) /\ UNCHANGED db
        ELSE IF err # "ok" THEN Raise(p, arg[p], err)
        ELSE /\ payments' = pays2
             /\ tickets' = [tickets EXCEPT ![t] = TicketSave(tk, AmountDueIn(pays2, refunds, t))]
             /\ Finish(p, arg[p], "ok", pm)
             /\ UNCHANGED <<refunds, receipts, buses>>

\* ----------------------------------------------------------- createRefund
CreatingRefund == {q \in Procs : pc[q] \in {"rf_lock", "rf_body", "rf_update", "rf_commit"}}

CallCreateRefundIn(p, max) ==
  /\ Len(refunds) + Cardinality(CreatingRefund) < max
  /\ \E pm \in 1..Len(payments) : Begin(p, [op |-> "createRefund", pm |-> pm], "rf_lock")

RfLock(p) == pc[p] = "rf_lock" /\ LockPayment(p, arg[p].pm, "rf_body")

\* The checks of a refund without the rule on the sign of the amount.
CreateRefundErrorUnsigned(pay, remaining, amount) ==
  IF pay.status \notin {CONFIRMED, PARTIALLY_REFUNDED} THEN "PaymentNotRefundable"
  ELSE IF amount > remaining THEN "RefundExceedsBalance"
  ELSE "ok"

\* Checks of a refund that do not look at the status of the payment.
CreateRefundErrorAnyStatus(pay, remaining, amount) ==
  IF amount <= 0 THEN "InvalidRefundAmount"
  ELSE IF amount > remaining THEN "RefundExceedsBalance"
  ELSE "ok"

\* The checks of create_refund_safe (and, again, of Refund.clean).
CreateRefundError(pay, remaining, amount) ==
  IF pay.status \notin {CONFIRMED, PARTIALLY_REFUNDED} THEN "PaymentNotRefundable"
  ELSE IF amount <= 0 THEN "InvalidRefundAmount"
  ELSE IF amount > remaining THEN "RefundExceedsBalance"
  ELSE "ok"

\* A refund that leaves the status of its payment alone.
RefundedStatusKept(pay, refunded) == pay.status

\* Refund.save: the status the payment moves to for a confirmed total.
RefundedStatus(pay, refunded) ==
  IF refunded = 0 THEN pay.status
  ELSE IF refunded < pay.amount THEN PARTIALLY_REFUNDED
  ELSE REFUNDED

\* The refund is inserted, the payment's status is recomputed and, when it
\* changes, saved (Payment.save: full_clean, then the ticket is read and
\* saved); otherwise Refund.save reads the ticket itself.  The ticket is read
\* without a lock; its UPDATE is the next step.
RfBodyIn(p, amounts) ==
  /\ pc[p] = "rf_body"
  /\ \E amount \in amounts, confirm \in BOOLEAN :
       LET a == [op |-> "createRefund", pm |-> arg[p].pm, amount |-> amount, confirm |-> confirm]
           pay == payments[a.pm]
           t == pay.ticket
           err == CreateRefundError(pay, RefundableRemaining(a.pm), a.amount)
           row == [payment |-> a.pm, amount |-> a.amount,
                   status |-> IF a.confirm THEN CONFIRMED ELSE PENDING]
           refs2 == Append(refunds, row)
           st2 == RefundedStatus(pay, RefundedTotalIn(refs2, a.pm))
           pays2 == [payments EXCEPT ![a.pm].status = st2]
           snap == tickets[t]
           others == [payments EXCEPT ![a.pm].status = PENDING]
           cascade == IF st2 = pay.status THEN "ok"
                      ELSE PaymentClean(pay.amount, st2, snap, AmountDueIn(others, refs2, t))
       IN IF err # "ok" THEN Raise(p, a, err)
          ELSE IF cascade # "ok" THEN Raise(p, a, cascade)
          ELSE /\ loc' = [loc EXCEPT ![p] = [k |-> "refund", row |-> row, st |-> st2,
                                             saved |-> st2 # pay.status,
                                             mem |-> TicketSave(snap, AmountDueIn(pays2, refs2, t))]]
               /\ pc' = [pc EXCEPT ![p] = "rf_update"]
               /\ arg' = [arg EXCEPT ![p] = a]
               /\ UNCHANGED <<db, held, res>>

\* The UPDATE of the ticket row waits for the row lock.  After Payment.save
\* saved the ticket, Refund.save saves the same in-memory ticket once more,
\* with amount_due read again.
RfUpdate(p) ==
  LET a == arg[p]
      t == payments[a.pm].ticket
      l == loc[p]
      refs2 == Append(refunds, l.row)
      pays2 == [payments EXCEPT ![a.pm].status = l.st]
  IN /\ pc[p] = "rf_update"
     /\ CanLock(p, TicketLock(t))
     /\ held' = [held EXCEPT ![p] = @ \cup {TicketLock(t)}]
     /\ loc' = [loc EXCEPT ![p].mem = IF l.saved THEN TicketSave(l.mem, AmountDueIn(pays2, refs2, t))
                                      ELSE l.mem]
     /\ Goto(p, "rf_commit")
     /\ UNCHANGED db

RfCommit(p) ==
  LET a == arg[p]
      t == payments[a.pm].ticket
      l == loc[p]
  IN /\ pc[p] = "rf_commit"
     /\ refunds' = Append(refunds, l.row)
     /\ payments' = [payments EXCEPT ![a.pm].status = l.st]
     /\ tickets' = [tickets EXCEPT ![t] = l.mem]
     /\ Finish(p, a, "ok", Len(refunds) + 1)
     /\ UNCHANGED <<receipts, buses>>

\* ----------------------------------------------------------- issueReceipt
CallIssueReceipt(p) ==
  \E pm \in 1..Len(payments) : Begin(p, [op |-> "issueReceipt", pm |-> pm], "is_lock")

IsLock(p) == pc[p] = "is_lock" /\ LockPayment(p, arg[p].pm, "is_body")

\* A payment taken to have no receipt yet.
ReceiptOfUnseen(pm) == None

\* hasattr(payment, "receipt"): the receipt of the payment, or None
ReceiptOf(pm) ==
  IF \E i \in 1..Len(receipts) : receipts[i].payment = pm
  THEN CHOOSE i \in 1..Len(receipts) : receipts[i].payment = pm
  ELSE None

\* Rules of a receipt that do not look at its number.
IssueReceiptErrorAnyNumber(pay, amount, number) ==
  IF pay.status \notin ConfirmedClass THEN "ReceiptNotIssuable"
  ELSE IF amount <= 0 THEN "InvalidReceiptAmount"
  ELSE IF amount > pay.amount THEN "ReceiptNotIssuable"
  ELSE "ok"

\* Rules of a receipt that look at its number only.
IssueReceiptErrorNumberOnly(pay, amount, number) ==
  IF \E i \in 1..Len(receipts) : receipts[i].number = number THEN "ReceiptNumberTaken"
  ELSE "ok"

\* The status rule of issue_receipt_safe, then Receipt.full_clean.
IssueReceiptError(pay, amount, number) ==
  IF pay.status \notin ConfirmedClass THEN "ReceiptNotIssuable"
  ELSE IF amount <= 0 THEN "InvalidReceiptAmount"
  ELSE IF amount > pay.amount THEN "ReceiptNotIssuable"
  ELSE IF \E i \in 1..Len(receipts) : receipts[i].number = number THEN "ReceiptNumberTaken"
  ELSE "ok"

\* transaction.on_commit(_post_commit): the transaction commits and releases
\* its locks, and the call goes on to run the callback on the receipt it saved.
OnCommit(p, a, id) ==
  /\ pc' = [pc EXCEPT ![p] = "is_callback"]
  /\ arg' = [arg EXCEPT ![p] = a]
  /\ loc' = [loc EXCEPT ![p] = [k |-> "receipt", id |-> id]]
  /\ held' = [held EXCEPT ![p] = {}]
  /\ UNCHANGED res

\* A body that schedules the callback also when it returns the receipt that
\* the payment already has.
IsBodyInRescheduling(p, numbers, totals) ==
  /\ pc[p] = "is_body"
  /\ \E number \in numbers, total \in totals :
       LET a == [op |-> "issueReceipt", pm |-> arg[p].pm, number |-> number,
                 total |-> total, artifact |-> "none"]
           pay == payments[a.pm]
           amount == IF a.total = None THEN pay.amount ELSE a.total
           err == IssueReceiptError(pay, amount, a.number)
       IN IF ReceiptOf(a.pm) # None
          THEN /\ UNCHANGED db
               /\ \E build_pdf_callback \in BOOLEAN :
                    IF build_pdf_callback
                    THEN OnCommit(p, a, ReceiptOf(a.pm))
                    ELSE Finish(p, a, "ok", ReceiptOf(a.pm))
          ELSE IF err # "ok" THEN Raise(p, a, err)
          ELSE /\ receipts' = Append(receipts, [payment |-> a.pm, number |-> a.number,
                                                 total |-> amount, status |-> "ISSUED"])
               /\ UNCHANGED <<tickets, payments, refunds, buses>>
               /\ \E build_pdf_callback \in BOOLEAN :
                    IF build_pdf_callback
                    THEN OnCommit(p, a, Len(receipts) + 1)
                    ELSE Finish(p, a, "ok", Len(receipts) + 1)

\* The body of the transaction.  The result tells what became of the artifact:
\* "none" (no callback ran), "built" or "failed" (the callback raised).
IsBodyIn(p, numbers, totals) ==
  /\ pc[p] = "is_body"
  /\ \E number \in numbers, total \in totals :
       LET a == [op |-> "issueReceipt", pm |-> arg[p].pm, number |-> number,
                 total |-> total, artifact |-> "none"]
           pay == payments[a.pm]
           amount == IF a.total = None THEN pay.amount ELSE a.total
           err == IssueReceiptError(pay, amount, a.number)
       IN IF ReceiptOf(a.pm) # None THEN Finish(p, a, "ok", ReceiptOf(a.pm)) /\ UNCHANGED db
          ELSE IF err # "ok" THEN Raise(p, a, err)
          ELSE /\ receipts' = Append(receipts, [payment |-> a.pm, number |-> a.number,
                                                 total |-> amount, status |-> "ISSUED"])
               /\ UNCHANGED <<tickets, payments, refunds, buses>>
               /\ \E build_pdf_callback \in BOOLEAN :
                    IF build_pdf_callback
                    THEN OnCommit(p, a, Len(receipts) + 1)
                    ELSE Finish(p, a, "ok", Len(receipts) + 1)

\* A callback whose exception reaches the caller and undoes the receipt.
IsCallbackUnwinding(p) ==
  /\ pc[p] = "is_callback"
  /\ \E raised \in BOOLEAN :
       IF raised
       THEN /\ Finish(p, [arg[p] EXCEPT !.artifact = "failed"], "ArtifactError", None)
            /\ receipts' = SelectSeq(receipts, LAMBDA r : r.payment # arg[p].pm)
            /\ UNCHANGED <<tickets, payments, refunds, buses>>
       ELSE /\ Finish(p, [arg[p] EXCEPT !.artifact = "built"], "ok", loc[p].id)
            /\ UNCHANGED db

\* A callback that runs inside the transaction, before the receipt is saved.
IsCallbackInside(p) ==
  /\ pc[p] \in {"is_body", "is_callback"}
  /\ \E raised \in BOOLEAN :
       /\ Finish(p, [op |-> "issueReceipt", pm |-> arg[p].pm, number |-> None, total |-> None,
                     artifact |-> IF raised THEN "failed" ELSE "built"],
                 "ok", ReceiptOf(arg[p].pm))
       /\ UNCHANGED db

\* _post_commit: build_pdf_callback(receipt) builds the artifact or raises;
\* the exception is swallowed and the call returns the receipt.
IsCallback(p) ==
  /\ pc[p] = "is_callback"
  /\ \E raised \in BOOLEAN :
       /\ Finish(p, [arg[p] EXCEPT !.artifact = IF raised THEN "failed" ELSE "built"],
                 "ok", loc[p].id)
       /\ UNCHANGED db

\* --------------------------------------------------- create_bus_with_code
\* A bus row is its code, plate and chassis_number, each under a unique index.
\* A code is the string "BUS-" followed by decimal digits; it is held as the
\* sequence of those digits.
Pad == 4

\* The plates and chassis numbers of the requests, and the values of retries.
Plates == {1, 2}
Chassis == {1, 2}
RetriesArgs == {1, 3}

RECURSIVE Digits(_)
\* The decimal digits of n.
Digits(n) == IF n < 10 THEN <<n>> ELSE Append(Digits(n \div 10), n % 10)

RECURSIVE ZeroPad(_, _)
\* The digits ds filled with zeros on the left up to width w.
ZeroPad(ds, w) == IF Len(ds) >= w THEN ds ELSE ZeroPad(<<0>> \o ds, w)

\* f"{_PREFIX}{n:0{_PAD}d}"
FormatCode(n) == ZeroPad(Digits(n), Pad)

RECURSIVE ParseCode(_)
\* int(m.group(1)) for the digits at the end of a code
ParseCode(ds) ==
  IF ds = <<>> THEN 0
  ELSE 10 * ParseCode(SubSeq(ds, 1, Len(ds) - 1)) + ds[Len(ds)]

RECURSIVE LexLess(_, _)
\* The order of the codes as strings.
LexLess(a, b) ==
  IF a = <<>> THEN b # <<>>
  ELSE IF b = <<>> THEN FALSE
  ELSE IF a[1] # b[1] THEN a[1] < b[1]
  ELSE LexLess(Tail(a), Tail(b))

\* .order_by("-code").first()
LastCode(rows) ==
  CHOOSE c \in {rows[i].code : i \in 1..Len(rows)} :
    \A i \in 1..Len(rows) : rows[i].code = c \/ LexLess(rows[i].code, c)

\* next_bus_code_global over the committed buses
NextBusCode(rows) ==
  IF rows = <<>> THEN FormatCode(1) ELSE FormatCode(ParseCode(LastCode(rows)) + 1)

\* Two rows that a unique index keeps apart.
Clash(r1, r2) == r1.code = r2.code \/ r1.plate = r2.plate \/ r1.chassis = r2.chassis

CreatingBus == {q \in Procs : pc[q] \in {"cb_next", "cb_insert", "cb_seats"}}

\* The row p inserts (or has inserted, while its transaction is open).
BusRow(p) == [code |-> loc[p].code, plate |-> arg[p].plate, chassis |-> arg[p].chassis]

\* The rows that other transactions have inserted and not yet committed.
PendingBuses(p) == {BusRow(q) : q \in {r \in Procs \ {p} : pc[r] = "cb_seats"}}

\* BusSerializer.create opens its transaction and calls create_bus_with_code.
\* `attempts` counts, for the properties, the inserts the call has made.
CallCreateBus(p) ==
  /\ Len(buses) + Cardinality(CreatingBus) < MaxBuses
  /\ \E retries \in RetriesArgs, plate \in Plates, chassis \in Chassis :
       Begin(p, [op |-> "createBus", retries |-> retries, plate |-> plate,
                 chassis |-> chassis, attempts |-> 0], "cb_next")

\* The head of the loop: after `retries` passes the function raises
\* IntegrityError; otherwise the next code is computed from the committed
\* buses.  `seen` and `lost` note, for the properties, how many buses were
\* committed when the code was computed and when an insert last failed.
CbNext(p) ==
  /\ pc[p] = "cb_next"
  /\ IF arg[p].attempts >= arg[p].retries
     THEN Raise(p, arg[p], "IntegrityError")
     ELSE /\ loc' = [loc EXCEPT ![p] = [k |-> "bus", code |-> NextBusCode(buses),
                                        seen |-> Len(buses),
                                        lost |-> IF loc[p].k = "bus" THEN loc[p].lost ELSE 0]]
          /\ Goto(p, "cb_insert")
          /\ UNCHANGED <<db, held>>

\* An insert that, when it fails, is made again with the same code.
CbInsertSameCode(p) ==
  /\ pc[p] = "cb_insert"
  /\ \/ \E i \in 1..Len(buses) : Clash(BusRow(p), buses[i])
     \/ \A r \in PendingBuses(p) : ~Clash(BusRow(p), r)
  /\ arg' = [arg EXCEPT ![p].attempts = @ + 1]
  /\ IF \E i \in 1..Len(buses) : Clash(BusRow(p), buses[i])
     THEN /\ loc' = [loc EXCEPT ![p].lost = Len(buses)]
          /\ pc' = [pc EXCEPT ![p] = IF arg[p].attempts + 1 >= arg[p].retries
                                     THEN "cb_next" ELSE "cb_insert"]
     ELSE /\ pc' = [pc EXCEPT ![p] = "cb_seats"]
          /\ UNCHANGED loc
  /\ UNCHANGED <<db, held, res>>

\* with transaction.atomic(): Bus.objects.create(**validated_data).  The
\* INSERT waits while a row it clashes with is uncommitted; a clash with a
\* committed row raises IntegrityError, the savepoint is rolled back and the
\* loop goes on; otherwise the row is inserted and the function returns it.
CbInsert(p) ==
  /\ pc[p] = "cb_insert"
  /\ \/ \E i \in 1..Len(buses) : Clash(BusRow(p), buses[i])
     \/ \A r \in PendingBuses(p) : ~Clash(BusRow(p), r)
  /\ arg' = [arg EXCEPT ![p].attempts = @ + 1]
  /\ IF \E i \in 1..Len(buses) : Clash(BusRow(p), buses[i])
     THEN /\ loc' = [loc EXCEPT ![p].lost = Len(buses)]
          /\ pc' = [pc EXCEPT ![p] = "cb_next"]
     ELSE /\ pc' = [pc EXCEPT ![p] = "cb_seats"]
          /\ UNCHANGED loc
  /\ UNCHANGED <<db, held, res>>

\* The rest of BusSerializer.create: the seats of the bus are created and the
\* transaction commits, or seat creation raises and the bus is rolled back.
CbSeats(p) ==
  /\ pc[p] = "cb_seats"
  /\ \E raised \in BOOLEAN :
       IF raised THEN Raise(p, arg[p], "SeatsError")
       ELSE /\ buses' = Append(buses, BusRow(p))
            /\ Finish(p, arg[p], "ok", Len(buses) + 1)
            /\ UNCHANGED <<tickets, payments, refunds, receipts>>

\* ------------------------------------------------------------------ system
Init ==
  /\ tickets = <<>> /\ payments = <<>> /\ refunds = <<>> /\ receipts = <<>>
  /\ buses = <<>>
  /\ held = [p \in Procs |-> {}]
  /\ pc = [p \in Procs |-> "idle"]
  /\ arg = [p \in Procs |-> NoArg]
  /\ loc = [p \in Procs |-> NoLoc]
  /\ res = [p \in Procs |-> NoRes]

\* The ledger of one booking: payments, confirmations and refunds.
CallCreateTicket(p) == CallCreateTicketIn(p, {1}, {1}, LedgerTickets)

CtSave(p) == CtSaveIn(p, {<<1, 2>>}, {2}, {RESERVED})

CallRecordPayment(p) == CallRecordPaymentIn(p, {None}, MaxPayments)

RpBody(p) == RpBodyIn(p, PayAmounts)

CallCreateRefund(p) == CallCreateRefundIn(p, MaxRefunds)

RfBody(p) == RfBodyIn(p, RefundAmounts)

TicketSteps(p) ==
  \/ CtLock(p) \/ CtCheck(p)
  \/ CallCancelTicket(p) \/ CnLock(p) \/ CnBody(p)
  \/ CallMarkNoShow(p) \/ NsLock(p) \/ NsBody(p)

PaymentSteps(p) ==
  \/ RpLock(p)
  \/ CallConfirmPayment(p) \/ CfLockP(p) \/ CfLockT(p) \/ CfBody(p)

RefundSteps(p) == RfLock(p) \/ RfUpdate(p) \/ RfCommit(p)

Next ==
  \E p \in Procs :
    \/ CallCreateTicket(p) \/ CtSave(p) \/ TicketSteps(p)
    \/ CallRecordPayment(p) \/ RpBody(p) \/ PaymentSteps(p)
    \/ CallCreateRefund(p) \/ RfBody(p) \/ RefundSteps(p)

Spec == Init /\ [][Next]_vars

\* The bookings of the seats of two departures, with a payment and a refund.
BkCallCreateTicket(p) == CallCreateTicketIn(p, Departures, Seats, MaxTickets)

BkCtSave(p) == CtSaveIn(p, ODPairs, BookingPrices, {RESERVED})

BkCallRecordPayment(p) == CallRecordPaymentIn(p, {None}, BookingPayments)

BkRpBody(p) == RpBodyIn(p, {2})

BkCallCreateRefund(p) == CallCreateRefundIn(p, BookingRefunds)

BkRfBody(p) == RfBodyIn(p, {1})

NextBooking ==
  \E p \in Procs :
    \/ BkCallCreateTicket(p) \/ BkCtSave(p) \/ TicketSteps(p)
    \/ BkCallRecordPayment(p) \/ BkRpBody(p) \/ PaymentSteps(p)
    \/ BkCallCreateRefund(p) \/ BkRfBody(p) \/ RefundSteps(p)

SpecBooking == Init /\ [][NextBooking]_vars

\* Retried and duplicated payment requests: the ledger without refunds, the
\* requests carrying a transaction id or none.
IdCallRecordPayment(p) == CallRecordPaymentIn(p, TxIds, MaxPayments)

IdRpBody(p) == RpBodyIn(p, {1, 3})

NextIdem ==
  \E p \in Procs :
    \/ CallCreateTicket(p) \/ CtSave(p) \/ TicketSteps(p)
    \/ IdCallRecordPayment(p) \/ IdRpBody(p) \/ PaymentSteps(p)

SpecIdem == Init /\ [][NextIdem]_vars

\* The receipts of the payments of one booking.
RcRpBody(p) == RpBodyIn(p, {1, 2})

RcCallCreateRefund(p) == CallCreateRefundIn(p, BookingRefunds)

RcRfBody(p) == RfBodyIn(p, {1})

IsBody(p) == IsBodyIn(p, ReceiptNumbers, ReceiptTotals)

ReceiptSteps(p) == CallIssueReceipt(p) \/ IsLock(p) \/ IsBody(p) \/ IsCallback(p)

NextReceipt ==
  \E p \in Procs :
    \/ CallCreateTicket(p) \/ CtLock(p) \/ CtCheck(p) \/ CtSave(p)
    \/ CallRecordPayment(p) \/ RpLock(p) \/ RcRpBody(p)
    \/ CallConfirmPayment(p) \/ CfLockP(p) \/ CfLockT(p) \/ CfBody(p)
    \/ RcCallCreateRefund(p) \/ RcRfBody(p) \/ RefundSteps(p)
    \/ ReceiptSteps(p)

SpecReceipt == Init /\ [][NextReceipt]_vars

\* The seven operations on one booking with one payment, scheduled fairly: a
\* transaction that can take its next step does so, and a transaction that
\* waits for a row lock gets it when the lock is free again and again (the
\* database serves its lock queues in turn).  Clients need not call.
FrRpBody(p) == RpBodyIn(p, {1, 2})

FrRfBody(p) == RfBodyIn(p, {1})

Calls(p) ==
  \/ CallCreateTicket(p) \/ CallCancelTicket(p) \/ CallMarkNoShow(p)
  \/ BkCallRecordPayment(p) \/ CallConfirmPayment(p)
  \/ BkCallCreateRefund(p) \/ CallIssueReceipt(p)

Progress(p) ==
  \/ CtLock(p) \/ CtCheck(p) \/ CtSave(p)
  \/ CnLock(p) \/ CnBody(p) \/ NsLock(p) \/ NsBody(p)
  \/ RpLock(p) \/ FrRpBody(p)
  \/ CfLockP(p) \/ CfLockT(p) \/ CfBody(p)
  \/ RfLock(p) \/ FrRfBody(p) \/ RfUpdate(p) \/ RfCommit(p)
  \/ IsLock(p) \/ IsBody(p) \/ IsCallback(p)

NextFair == \E p \in Procs : Calls(p) \/ Progress(p)

SpecFair ==
  Init /\ [][NextFair]_vars /\ \A p \in Procs : SF_vars(Progress(p))

\* The ticket endpoint: one booking with one payment, and the update and
\* destroy requests of the ticket endpoint next to the services.
NextEndpoint ==
  \E p \in Procs :
    \/ CallCreateTicket(p) \/ CtSave(p) \/ TicketSteps(p)
    \/ BkCallRecordPayment(p) \/ FrRpBody(p) \/ PaymentSteps(p)
    \/ UpdateTicket(p) \/ DestroyTicket(p)

SpecEndpoint == Init /\ [][NextEndpoint]_vars

\* The initial status of a booking: one booking created with any status of
\* Ticket.STATUS_CHOICES, and its payments, without refunds.
InCtSave(p) == CtSaveIn(p, {<<1, 2>>}, {2}, TicketStatuses)

NextInitial ==
  \E p \in Procs :
    \/ CallCreateTicket(p) \/ InCtSave(p) \/ TicketSteps(p)
    \/ CallRecordPayment(p) \/ FrRpBody(p) \/ PaymentSteps(p)

SpecInitial == Init /\ [][NextInitial]_vars

\* A booking paid in parts: up to three payments of one unit on one booking,
\* and one refund.
PtCallRecordPayment(p) == CallRecordPaymentIn(p, {None}, RepayPayments)

PtRpBody(p) == RpBodyIn(p, {1})

NextRepay ==
  \E p \in Procs :
    \/ CallCreateTicket(p) \/ CtSave(p) \/ TicketSteps(p)
    \/ PtCallRecordPayment(p) \/ PtRpBody(p) \/ PaymentSteps(p)
    \/ BkCallCreateRefund(p) \/ BkRfBody(p) \/ RefundSteps(p)

SpecRepay == Init /\ [][NextRepay]_vars

\* The buses: concurrent bus creations, on an empty fleet or on one whose
\* last code is close to the width of the zero padding.
BusTables == {<<>>, <<[code |-> FormatCode(FleetSize), plate |-> 0, chassis |-> 0]>>}

InitBus ==
  /\ tickets = <<>> /\ payments = <<>> /\ refunds = <<>> /\ receipts = <<>>
  /\ buses \in BusTables
  /\ held = [p \in Procs |-> {}]
  /\ pc = [p \in Procs |-> "idle"]
  /\ arg = [p \in Procs |-> NoArg]
  /\ loc = [p \in Procs |-> NoLoc]
  /\ res = [p \in Procs |-> NoRes]

NextBus == \E p \in Procs : CallCreateBus(p) \/ CbNext(p) \/ CbInsert(p) \/ CbSeats(p)

SpecBus == InitBus /\ [][NextBus]_vars

\* ---------------------------------------------------------------- bookings
\* The tickets of a (departure, seat) pair.
OnPair(dep, seat) ==
  {i \in 1..Len(tickets) : tickets[i].dep = dep /\ tickets[i].seat = seat}

\* C1. Seat exclusivity: whatever createTicket, cancelTicket, markNoShow,
\* recordPayment, confirmPayment and createRefund calls have run, and however
\* they interleaved, no two tickets of the same (departure, seat) pair are both
\* RESERVED, PAID or NO_SHOW.
SeatExclusivity ==
  \A i, j \in 1..Len(tickets) :
    (/\ i # j
     /\ tickets[i].dep = tickets[j].dep /\ tickets[i].seat = tickets[j].seat
     /\ tickets[i].status # CANCELLED)
    => tickets[j].status = CANCELLED

\* A pair was booked again after a cancellation, by one of two calls that
\* overlapped on it.
SeatBookedAgain ==
  \E p, q \in Procs :
    /\ p # q
    /\ res[p].op = "createTicket" /\ res[p].out = "ok"
    /\ res[q].op = "createTicket" /\ res[q].out = "SeatUnavailable"
    /\ res[p].a.dep = res[q].a.dep /\ res[p].a.seat = res[q].a.seat
    /\ \E i \in OnPair(res[p].a.dep, res[p].a.seat) : tickets[i].status = CANCELLED

\* The inputs of a finished createTicket call are valid: a seat of the
\* departure's bus, an active seat, origin before destination on the route
\* (a call rejected before it read its origin and destination stands for the
\* calls with any of them, the valid ones included).
ValidBooking(r) ==
  /\ DepartureBus(r.a.dep) = SeatBus(r.a.seat)
  /\ SeatActive(r.a.seat)
  /\ "o" \in DOMAIN r.a =>
       /\ r.a.o \in RouteStops /\ r.a.d \in RouteStops
       /\ StopOrder(r.a.o) < StopOrder(r.a.d)

\* C2. Of two createTicket calls that overlap on the same (departure, seat),
\* with valid inputs, made while the pair had no ticket other than CANCELLED
\* ones, exactly one returns a Ticket and the other fails with SeatUnavailable.
OneOverlappingBookingWins ==
  \A p, q \in Procs :
    (/\ p # q
     /\ res[p].op = "createTicket" /\ res[q].op = "createTicket"
     /\ res[p].a.dep = res[q].a.dep /\ res[p].a.seat = res[q].a.seat
     /\ ValidBooking(res[p]) /\ ValidBooking(res[q])
     /\ res[p].a.free /\ res[q].a.free)
    => \/ res[p].out = "ok" /\ res[q].out = "SeatUnavailable"
       \/ res[q].out = "ok" /\ res[p].out = "SeatUnavailable"

\* C3. Balance invariant: for every ticket, the amounts of its payments in
\* status CONFIRMED, PARTIALLY_REFUNDED or REFUNDED minus its CONFIRMED refunds
\* are at most the ticket's price.
BalanceInvariant ==
  \A t \in 1..Len(tickets) : AmountPaid(t) <= tickets[t].price

\* C4. Payment idempotence: no two payments carry the same non-empty
\* transaction id, whether the recordPayment calls ran one after the other or
\* overlapped.
OnePaymentPerTransactionId ==
  \A i, j \in 1..Len(payments) :
    (i # j /\ payments[i].txid # None) => payments[i].txid # payments[j].txid

\* C9. CANCELLED tickets do not block reuse of the seat: a createTicket call
\* with valid inputs that finds every ticket of its (departure, seat) pair
\* CANCELLED succeeds, whatever its origin and destination, those of a
\* cancelled ticket included.
CancelledSeatReusable ==
  [][\A p \in Procs :
       (/\ pc[p] \in {"ct_check", "ct_save"} /\ pc'[p] = "idle"
        /\ ValidBooking(res'[p])
        /\ \A i \in OnPair(arg[p].dep, arg[p].seat) : tickets[i].status = CANCELLED)
       => res'[p].out = "ok"]_vars

\* ----------------------------------------------------------------- receipts
\* C5. Receipt idempotence: a payment never has two receipts, and an
\* issueReceipt call that finds a receipt of its payment returns that receipt
\* as a success and persists nothing.
ReceiptIdempotence ==
  [][/\ \A i, j \in 1..Len(receipts') :
          receipts'[i].payment = receipts'[j].payment => i = j
     /\ \A p \in Procs :
          LET mine == {i \in 1..Len(receipts) : receipts[i].payment = arg[p].pm}
          IN (pc[p] = "is_body" /\ pc'[p] = "idle" /\ mine # {})
             => /\ res'[p].out = "ok" /\ res'[p].id \in mine
                /\ receipts' = receipts]_vars

\* Two issueReceipt calls that overlapped on a payment returned the same
\* receipt, one of them under a number it did not ask for.
ReceiptReturnedTwice ==
  \E p, q \in Procs :
    /\ p # q
    /\ res[p].op = "issueReceipt" /\ res[q].op = "issueReceipt"
    /\ res[p].out = "ok" /\ res[q].out = "ok"
    /\ res[p].id = res[q].id
    /\ receipts[res[q].id].number # res[q].a.number

\* ------------------------------------------------------------------ refunds
\* The CONFIRMED refunds of a payment.
ConfirmedRefundsOf(pm) ==
  {i \in 1..Len(refunds) : refunds[i].payment = pm /\ refunds[i].status = CONFIRMED}

RECURSIVE SumRefunds(_)
SumRefunds(rows) ==
  IF rows = {} THEN 0
  ELSE LET i == CHOOSE x \in rows : TRUE
       IN refunds[i].amount + SumRefunds(rows \ {i})

\* C6. Refund bound: for every payment, the amounts of its CONFIRMED refunds
\* add up to at most the payment's amount.
RefundBound ==
  \A pm \in 1..Len(payments) : SumRefunds(ConfirmedRefundsOf(pm)) <= payments[pm].amount

\* A payment was refunded in full by two refunds.
RefundedInTwo ==
  \E pm \in 1..Len(payments) :
    /\ Cardinality(ConfirmedRefundsOf(pm)) = 2
    /\ SumRefunds(ConfirmedRefundsOf(pm)) = payments[pm].amount

\* C8. A createRefund call whose amount is <= 0 or exceeds what remains
\* refundable of the payment is rejected: no Refund row is added, and the
\* payment and its ticket are as before.
BadRefundRejected ==
  [][\A p \in Procs :
       LET pm == arg[p].pm
           amount == IF pc'[p] = "idle" THEN res'[p].a.amount ELSE arg'[p].amount
       IN (/\ pc[p] = "rf_body" /\ pc'[p] # "rf_body"
           /\ \/ amount <= 0
              \/ amount > payments[pm].amount - SumRefunds(ConfirmedRefundsOf(pm)))
          => /\ pc'[p] = "idle"
             /\ res'[p].out \in {"PaymentNotRefundable", "InvalidRefundAmount",
                                 "RefundExceedsBalance"}
             /\ db' = db]_vars

\* A refund larger than what remained of a partly refunded payment was
\* rejected.
RefundOverRemainderRejected ==
  \E p \in Procs :
    /\ res[p].op = "createRefund" /\ res[p].out = "RefundExceedsBalance"
    /\ payments[res[p].a.pm].status = PARTIALLY_REFUNDED
    /\ res[p].a.amount <= payments[res[p].a.pm].amount

LockRank(l, order) == CHOOSE i \in 1..Len(order) : order[i] = l[1]

\* Every lock a step acquires comes, in the order, after every lock its
\* transaction already holds.
AcquiresInOrder(order) ==
  \A p \in Procs :
    \A l \in held'[p] \ held[p] :
      \A h \in held[p] : LockRank(h, order) < LockRank(l, order)

\* C10 as stated. Row locks are acquired in the order Seat, Ticket, Payment:
\* no Seat lock is acquired while holding a Ticket lock and no Ticket lock
\* while holding a Payment lock.
LockOrderSeatTicketPayment ==
  [][AcquiresInOrder(<<"Seat", "Ticket", "Payment">>)]_vars

\* C10. Row locks are acquired in the order Seat, Payment, Ticket: no Seat
\* lock is acquired while holding a Payment or Ticket lock and no Payment lock
\* while holding a Ticket lock.
LockOrderSeatPaymentTicket ==
  [][AcquiresInOrder(<<"Seat", "Payment", "Ticket">>)]_vars

\* A refund holds the lock of its payment and the lock of the ticket it
\* updates.
RefundHoldsPaymentAndTicket ==
  \E p \in Procs :
    /\ pc[p] = "rf_commit"
    /\ \E l, h \in held[p] : l[1] = "Payment" /\ h[1] = "Ticket"

\* The row lock the next step of transaction p asks for, if any.
WantedLocks(p) ==
  IF pc[p] = "ct_lock" THEN {SeatLock(arg[p].seat)}
  ELSE IF pc[p] \in {"cn_lock", "ns_lock", "rp_lock"} THEN {TicketLock(arg[p].t)}
  ELSE IF pc[p] \in {"cf_lockp", "rf_lock", "is_lock"} THEN {PaymentLock(arg[p].pm)}
  ELSE IF pc[p] \in {"cf_lockt", "rf_update"} THEN {TicketLock(payments[arg[p].pm].ticket)}
  ELSE {}

\* Transaction p waits for a row lock that transaction q holds.
WaitsFor(p, q) == p # q /\ WantedLocks(p) \cap held[q] # {}

\* No set of transactions in which each waits for another of the set.
NoWaitCycle ==
  \A S \in SUBSET Procs \ {{}} :
    \E p \in S : \A q \in S : ~WaitsFor(p, q)

\* C11. Deadlock freedom: transactions never wait on each other's row locks
\* in a cycle, and under fair scheduling every operation that was started
\* ends, by a commit or by an abort.
DeadlockFreedom ==
  /\ []NoWaitCycle
  /\ \A p \in Procs : (pc[p] # "idle") ~> (pc[p] = "idle")

\* A transaction that holds the lock of a payment waits for the lock of the
\* payment's ticket, held by another transaction.
HoldsAndWaits ==
  \E p, q \in Procs : WaitsFor(p, q) /\ held[p] # {}

\* Process p ends an issueReceipt call in this step.
IssueReceiptEnds(p) == res'[p] # res[p] /\ res'[p].op = "issueReceipt"

\* C12. The artifact-build callback of issueReceipt runs only after the
\* transaction that persisted the Receipt has committed: when it runs, the
\* receipt of the payment is already committed and the call holds no lock, and
\* a call that fails or is rolled back runs no callback.
CallbackAfterCommit ==
  [][\A p \in Procs :
       (IssueReceiptEnds(p) /\ res'[p].a.artifact # "none") =>
         /\ held[p] = {}
         /\ res'[p].out = "ok"
         /\ res'[p].id \in 1..Len(receipts)
         /\ receipts[res'[p].id].payment = res'[p].a.pm
         /\ receipts[res'[p].id].number = res'[p].a.number]_vars

\* The callback built the artifact of a receipt that the call had issued.
ArtifactBuilt ==
  \E p \in Procs :
    /\ res[p].op = "issueReceipt" /\ res[p].out = "ok"
    /\ res[p].a.artifact = "built"
    /\ res[p].id \in 1..Len(receipts)
    /\ receipts[res[p].id].payment = res[p].a.pm

\* C13. A failure of the artifact-build callback never unwinds the Receipt:
\* when the callback raises, the call still returns the receipt, the Receipt
\* stays persisted with status ISSUED, and no ticket, payment or refund changes.
CallbackFailureKeepsReceipt ==
  [][\A p \in Procs :
       (IssueReceiptEnds(p) /\ res'[p].a.artifact = "failed") =>
         /\ res'[p].out = "ok"
         /\ db' = db
         /\ \E i \in 1..Len(receipts') :
              /\ receipts'[i].payment = res'[p].a.pm
              /\ receipts'[i].status = "ISSUED"
              /\ res'[p].id = i]_vars

\* The callback raised and the receipt is there, ISSUED.
ArtifactFailedReceiptKept ==
  \E p \in Procs :
    /\ res[p].op = "issueReceipt" /\ res[p].out = "ok"
    /\ res[p].a.artifact = "failed"
    /\ res[p].id \in 1..Len(receipts)
    /\ receipts[res[p].id].payment = res[p].a.pm
    /\ receipts[res[p].id].status = "ISSUED"

\* The sum of the CONFIRMED payments of ticket t.
ConfirmedSum(t) ==
  SumSeq(payments, LAMBDA i : payments[i].ticket = t /\ payments[i].status = CONFIRMED, 1)

\* C14. Status propagation on payment: for a ticket created RESERVED with a
\* price p > 0 that was neither cancelled nor marked no-show, with payments
\* only and no refunds, amount_due = p - (sum of the confirmed amounts); the
\* ticket is RESERVED with paid_at null while the sum is below p, and PAID with
\* paid_at set as soon as the sum equals p.
PaymentPropagation ==
  \A t \in 1..Len(tickets) :
    (/\ tickets[t].price > 0
     /\ tickets[t].status \in {RESERVED, PAID}
     /\ Len(refunds) = 0) =>
      /\ AmountDue(t) = tickets[t].price - ConfirmedSum(t)
      /\ ConfirmedSum(t) <= tickets[t].price
      /\ ConfirmedSum(t) < tickets[t].price =>
           tickets[t].status = RESERVED /\ tickets[t].paid_at = None
      /\ ConfirmedSum(t) = tickets[t].price =>
           tickets[t].status = PAID /\ tickets[t].paid_at # None

\* A ticket paid in two confirmed payments, one of them confirmed later, is PAID.
PaidInTwoPayments ==
  \E t \in 1..Len(tickets) :
    /\ Len(refunds) = 0 /\ Len(payments) = 2
    /\ \A i \in 1..2 : payments[i].ticket = t /\ payments[i].status = CONFIRMED
    /\ payments[1].amount < tickets[t].price
    /\ ConfirmedSum(t) = tickets[t].price
    /\ tickets[t].status = PAID /\ tickets[t].paid_at # None
    /\ \E p \in Procs : res[p].op = "confirmPayment" /\ res[p].out = "ok"

\* C15. A successful createRefund with confirmImmediately = true and amount r
\* on payment P lowers amount_paid of the owning ticket by exactly r, and sets
\* P.status to PARTIALLY_REFUNDED when the confirmed refund total of P is then
\* below P.amount, and to REFUNDED when it equals P.amount.
ConfirmedRefundPropagation ==
  [][\A p \in Procs :
       (/\ res'[p] # res[p]
        /\ res'[p].op = "createRefund" /\ res'[p].out = "ok"
        /\ res'[p].a.confirm) =>
         LET pm == res'[p].a.pm
             t == payments[pm].ticket
             refunded == RefundedTotalIn(refunds', pm)
         IN /\ AmountPaidIn(payments', refunds', t) = AmountPaid(t) - res'[p].a.amount
            /\ refunded <= payments[pm].amount
            /\ refunded < payments[pm].amount => payments'[pm].status = PARTIALLY_REFUNDED
            /\ refunded = payments[pm].amount => payments'[pm].status = REFUNDED]_vars

\* A confirmed refund of a part of a payment left the payment
\* PARTIALLY_REFUNDED and the ticket's amount_paid lower by the refund.
PartRefunded ==
  \E p \in Procs :
    /\ res[p].op = "createRefund" /\ res[p].out = "ok" /\ res[p].a.confirm
    /\ Len(payments) = 1 /\ Len(refunds) = 1
    /\ refunds[1].amount < payments[1].amount
    /\ payments[1].status = PARTIALLY_REFUNDED
    /\ AmountPaid(payments[1].ticket) = payments[1].amount - refunds[1].amount

\* C16. confirmPayment is an idempotent no-op on a confirmed payment: applied
\* to a payment whose status is already CONFIRMED it returns that payment as a
\* success and changes no Ticket, Payment, Refund or Receipt record, whatever
\* the status of the owning ticket.
ConfirmIdempotent ==
  [][\A p \in Procs :
       (/\ pc[p] = "cf_body" /\ pc'[p] = "idle"
        /\ payments[arg[p].pm].status = CONFIRMED) =>
         /\ res'[p].op = "confirmPayment"
         /\ res'[p].out = "ok" /\ res'[p].id = arg[p].pm
         /\ db' = db]_vars

\* C17. cancelTicket: on a ticket already CANCELLED it returns the ticket with
\* no change; on a ticket whose amount_paid is greater than 0 it is rejected
\* with UnrefundedBalance and the ticket is unchanged; on any other ticket it
\* sets status to CANCELLED and changes no Payment or Refund.
CancelTicketContract ==
  [][\A p \in Procs :
       (pc[p] = "cn_body" /\ pc'[p] = "idle") =>
         LET t == arg[p].t
         IN /\ res'[p].op = "cancelTicket"
            /\ IF tickets[t].status = CANCELLED
               THEN res'[p].out = "ok" /\ res'[p].id = t /\ db' = db
               ELSE IF AmountPaid(t) > 0
               THEN res'[p].out = "UnrefundedBalance" /\ db' = db
               ELSE /\ res'[p].out = "ok" /\ res'[p].id = t
                    /\ tickets' = [tickets EXCEPT ![t].status = CANCELLED]
                    /\ payments' = payments /\ refunds' = refunds]_vars

\* A cancellation was rejected for a ticket with money on it.
CancelRejectedForBalance ==
  \E p \in Procs :
    /\ res[p].op = "cancelTicket" /\ res[p].out = "UnrefundedBalance"
    /\ AmountPaid(res[p].a.t) > 0
    /\ tickets[res[p].a.t].status # CANCELLED

\* C18. markNoShow: on a CANCELLED ticket it is rejected and the ticket is
\* unchanged; on every non-CANCELLED ticket, whatever its amount_paid,
\* amount_due and paid_at, the call succeeds and the persisted status after it
\* is NO_SHOW, with all Payments and Refunds unchanged.
MarkNoShowContract ==
  [][\A p \in Procs :
       (pc[p] = "ns_body" /\ pc'[p] = "idle") =>
         LET t == arg[p].t
         IN /\ res'[p].op = "markNoShow"
            /\ IF tickets[t].status = CANCELLED
               THEN res'[p].out # "ok" /\ db' = db
               ELSE /\ res'[p].out = "ok" /\ res'[p].id = t
                    /\ tickets'[t].status = NO_SHOW
                    /\ payments' = payments /\ refunds' = refunds]_vars

\* The ticket is CANCELLED or NO_SHOW.
Dead(t) == tickets[t].status \in {CANCELLED, NO_SHOW}

\* Process p ends, in this step, a confirmPayment of a PENDING payment of a
\* dead ticket.
ConfirmsPendingOnDead(p) ==
  /\ pc[p] = "cf_body" /\ pc'[p] = "idle"
  /\ payments[arg[p].pm].status = PENDING
  /\ Dead(payments[arg[p].pm].ticket)

\* The call that ends is a rejection that leaves every record as it was.
RejectedUnchanged(p) == res'[p].out \notin {"ok", "none"} /\ db' = db

\* C19 as stated. No payment activity on a dead ticket: every recordPayment
\* and every confirmPayment of a PENDING payment that ends while the ticket is
\* CANCELLED or NO_SHOW is rejected, adds no Payment and changes no payment
\* status.
DeadTicketRejectsEveryPayment ==
  [][\A p \in Procs :
       /\ (/\ res'[p] # res[p] /\ res'[p].op = "recordPayment"
           /\ Dead(res'[p].a.t)) => RejectedUnchanged(p)
       /\ ConfirmsPendingOnDead(p) => RejectedUnchanged(p)]_vars

\* C19. No payment activity on a dead ticket: a recordPayment that does not
\* return an existing payment of its transaction id, and a confirmPayment of
\* a PENDING payment, are rejected when the ticket is CANCELLED or NO_SHOW,
\* also when the cancellation or no-show committed while they were waiting;
\* a recordPayment that finds a payment of its transaction id returns it as a
\* success; in both cases no Payment is added and no payment status changes.
DeadTicketRejectsNewPayment ==
  [][\A p \in Procs :
       /\ (/\ pc[p] = "rp_body" /\ pc'[p] = "idle"
           /\ Dead(arg[p].t)) => RejectedUnchanged(p)
       /\ ConfirmsPendingOnDead(p) => RejectedUnchanged(p)
       /\ (/\ res'[p] # res[p] /\ res'[p].op = "recordPayment"
           /\ Dead(res'[p].a.t)) => db' = db]_vars

\* A recordPayment that overlapped a markNoShow of its ticket was rejected
\* after the no-show had committed.
PaymentRejectedAfterConcurrentNoShow ==
  \E p, q \in Procs :
    /\ res[q].op = "markNoShow" /\ res[q].out = "ok"
    /\ res[p].op = "recordPayment" /\ res[p].out = "TicketNotPayable"
    /\ res[p].a.t = res[q].a.t
    /\ tickets[res[p].a.t].status = NO_SHOW

\* C20. The propagator never reverts a ticket: once a ticket's status is
\* PAID, no recordPayment, confirmPayment, createRefund or issueReceipt, in
\* any order or interleaving, changes its status back to RESERVED; only
\* cancelTicket and markNoShow move a ticket out of PAID.
PaidNeverReverts ==
  [][\A t \in 1..Len(tickets) :
       (tickets[t].status = PAID /\ tickets'[t].status # PAID) =>
         /\ tickets'[t].status \in {CANCELLED, NO_SHOW}
         /\ \E p \in Procs :
              /\ pc[p] \in {"cn_body", "ns_body"} /\ pc'[p] = "idle"
              /\ arg[p].t = t]_vars

\* C21. Ticket.paid_at is set once: after a ticket's paid_at has become
\* non-null in a committed state, no later operation, in any interleaving of
\* payments, refunds, cancel and no-show, clears it or changes it.
TicketPaidAtSetOnce ==
  [][\A t \in 1..Len(tickets) :
       tickets[t].paid_at # None => tickets'[t].paid_at = tickets[t].paid_at]_vars

\* C22. Error atomicity: whenever one of the seven operations ends with a
\* domain error, every Ticket, Payment, Refund and Receipt record is as it
\* was, also when the error is raised after a row was written inside the
\* transaction; records change only in the commit of a call that succeeds, so
\* no other transaction observes a partial mutation.
ErrorAtomicity ==
  [][/\ \A p \in Procs :
          (res'[p] # res[p] /\ res'[p].out \notin {"ok", "none"}) => db' = db
     /\ db' # db =>
          \E p \in Procs :
            \/ res'[p] # res[p] /\ res'[p].out = "ok"
            \/ pc[p] = "is_body" /\ pc'[p] = "is_callback"]_vars

\* A createRefund failed in the save cascade of its payment, after the refund
\* row had been written in the transaction, and no refund is there.
RefundCascadeFailed ==
  \E p \in Procs :
    /\ res[p].op = "createRefund" /\ res[p].out = "TicketNotPayable"
    /\ payments[res[p].a.pm].status = CONFIRMED
    /\ Len(refunds) = 0

\* Every persisted receipt belongs to a payment that is CONFIRMED,
\* PARTIALLY_REFUNDED or REFUNDED and has 0 < total_amount <= payment.amount.
ReceiptsIssuable ==
  \A i \in 1..Len(receipts) :
    /\ payments[receipts[i].payment].status \in {CONFIRMED, PARTIALLY_REFUNDED, REFUNDED}
    /\ 0 < receipts[i].total
    /\ receipts[i].total <= payments[receipts[i].payment].amount

\* The arguments of the issueReceipt call whose transaction ends in this step.
IssueArgs(p) == IF pc'[p] = "is_callback" THEN arg'[p] ELSE res'[p].a

\* The transaction of an issueReceipt call of p ends in this step, for a
\* payment that is PENDING or FAILED or with a totalAmount above its amount.
IssuesUnissuable(p) ==
  /\ pc[p] = "is_body" /\ pc'[p] # "is_body"
  /\ \/ payments[arg[p].pm].status \in {PENDING, FAILED}
     \/ IssueArgs(p).total # None /\ IssueArgs(p).total > payments[arg[p].pm].amount

\* The issueReceipt call of p is rejected in this step and persists nothing.
IssueRejected(p) ==
  /\ pc'[p] = "idle" /\ res'[p].out \notin {"ok", "none"}
  /\ receipts' = receipts

\* C23 as stated. Receipt issuability: every persisted Receipt belongs to a
\* payment that is CONFIRMED, PARTIALLY_REFUNDED or REFUNDED with
\* 0 < total_amount <= payment.amount, and every issueReceipt call on a
\* PENDING or FAILED payment, or with totalAmount greater than
\* payment.amount, is rejected and persists no Receipt.
ReceiptIssuabilityAlways ==
  /\ []ReceiptsIssuable
  /\ [][\A p \in Procs : IssuesUnissuable(p) => IssueRejected(p)]_vars

\* C23. Receipt issuability: every persisted Receipt belongs to a payment that
\* is CONFIRMED, PARTIALLY_REFUNDED or REFUNDED with
\* 0 < total_amount <= payment.amount; an issueReceipt call on a PENDING or
\* FAILED payment, or with totalAmount greater than payment.amount, is
\* rejected when the payment has no receipt yet, and when it has one the call
\* returns that receipt; neither persists a Receipt.
ReceiptIssuability ==
  /\ []ReceiptsIssuable
  /\ [][\A p \in Procs :
          IssuesUnissuable(p) =>
            IF \E i \in 1..Len(receipts) : receipts[i].payment = arg[p].pm
            THEN /\ pc'[p] = "idle" /\ res'[p].out = "ok"
                 /\ receipts[res'[p].id].payment = arg[p].pm
                 /\ receipts' = receipts
            ELSE IssueRejected(p)]_vars

\* An issueReceipt with a totalAmount above the amount of its confirmed
\* payment was rejected, and the payment has no receipt.
ReceiptAboveAmountRejected ==
  \E p \in Procs :
    /\ res[p].op = "issueReceipt" /\ res[p].out = "ReceiptNotIssuable"
    /\ payments[res[p].a.pm].status = CONFIRMED
    /\ res[p].a.total # None /\ res[p].a.total > payments[res[p].a.pm].amount
    /\ \A i \in 1..Len(receipts) : receipts[i].payment # res[p].a.pm

\* No two receipts share a number.
NumbersDistinct ==
  \A i, j \in 1..Len(receipts) : receipts[i].number = receipts[j].number => i = j

RefundOnlyConfirmedPayments ==
  /\ [](\A i \in 1..Len(refunds) :
          payments[refunds[i].payment].status \in {CONFIRMED, PARTIALLY_REFUNDED, REFUNDED})
  /\ [][\A p \in Procs :
          (/\ pc[p] = "rf_body" /\ pc'[p] # "rf_body"
           /\ payments[arg[p].pm].status \in {PENDING, FAILED, REFUNDED}) =>
            /\ pc'[p] = "idle"
            /\ res'[p].op = "createRefund"
            /\ res'[p].out = "PaymentNotRefundable"
            /\ db' = db]_vars

\* A createRefund on a REFUNDED payment was rejected.
RefundOfRefundedRejected ==
  \E p \in Procs :
    /\ res[p].op = "createRefund" /\ res[p].out = "PaymentNotRefundable"
    /\ payments[res[p].a.pm].status = REFUNDED

\* The transaction id of the recordPayment call that process p makes in this
\* step, or None when it makes no such call or the call carries no id.
CalledTxId(p) ==
  IF pc[p] # "idle" THEN None
  ELSE IF pc'[p] = "rp_lock" THEN arg'[p].txid
  ELSE IF pc'[p] = "idle" /\ res'[p] # res[p] /\ res'[p].op = "recordPayment"
  THEN res'[p].a.txid
  ELSE None

\* C26. A retried recordPayment is a pure read: when a Payment with the
\* supplied transactionId exists at the call, the call returns a Payment of
\* that transactionId and changes no Ticket, Payment, Refund or Receipt
\* record and takes no lock, whatever the ticketId, amount and
\* confirmImmediately of the retry and whatever the status of the ticket.
RetryIsPureRead ==
  [][\A p \in Procs :
       (/\ CalledTxId(p) # None
        /\ \E i \in 1..Len(payments) : payments[i].txid = CalledTxId(p)) =>
         /\ pc'[p] = "idle"
         /\ res'[p].out = "ok"
         /\ res'[p].id \in 1..Len(payments)
         /\ payments[res'[p].id].txid = CalledTxId(p)
         /\ db' = db /\ held' = held]_vars

\* A retry with another amount, on a ticket that is NO_SHOW by now, returned
\* the payment of its transaction id.
RetryOnDeadTicketReturned ==
  \E p \in Procs :
    /\ res[p].op = "recordPayment" /\ res[p].out = "ok"
    /\ res[p].a.txid # None
    /\ Len(payments) = 1 /\ res[p].id = 1
    /\ payments[1].txid = res[p].a.txid
    /\ res[p].a.amount # payments[1].amount
    /\ res[p].a.confirm /\ payments[1].status = PENDING
    /\ tickets[res[p].a.t].status = NO_SHOW

\* The seat belongs to the bus of the departure.
SeatOfBus(dep, seat) == DepartureBus(dep) = SeatBus(seat)

\* Origin and destination are stops of the route, in this order.
SubRoute(o, d) == o \in RouteStops /\ d \in RouteStops /\ StopOrder(o) < StopOrder(d)

\* C27. Booking validation: every ticket persisted by createTicket has a seat
\* that belongs to the departure's bus and is active, and an origin and a
\* destination that are stops of the departure's route with the origin's
\* order strictly lower; a call that violates one of these fails and persists
\* no Ticket, and when it got past the seat's conflict check its error is
\* SeatBusMismatch, InvalidSubRoute or SeatInactive, naming a rule it violates.
BookingValidation ==
  /\ [](\A i \in 1..Len(tickets) :
          /\ SeatOfBus(tickets[i].dep, tickets[i].seat)
          /\ SeatActive(tickets[i].seat)
          /\ SubRoute(tickets[i].o, tickets[i].d))
  /\ [][\A p \in Procs :
          (/\ pc[p] \in {"ct_check", "ct_save"} /\ pc'[p] = "idle"
           /\ LET a == res'[p].a
              IN \/ ~SeatOfBus(a.dep, a.seat)
                 \/ ~SeatActive(a.seat)
                 \/ "o" \in DOMAIN a /\ ~SubRoute(a.o, a.d)) =>
            LET a == res'[p].a
                out == res'[p].out
            IN /\ out \notin {"ok", "none"}
               /\ tickets' = tickets
               /\ pc[p] = "ct_save" =>
                    /\ out \in {"SeatBusMismatch", "InvalidSubRoute", "SeatInactive"}
                    /\ out = "SeatBusMismatch" => ~SeatOfBus(a.dep, a.seat)
                    /\ out = "InvalidSubRoute" => ~SubRoute(a.o, a.d)
                    /\ out = "SeatInactive" => ~SeatActive(a.seat)]_vars

\* With a ticket sold, bookings were rejected for a reversed sub-route and for
\* an inactive seat.
BadBookingsRejected ==
  \E p, q \in Procs :
    /\ res[p].op = "createTicket" /\ res[p].out = "InvalidSubRoute"
    /\ res[p].a.o = 2 /\ res[p].a.d = 1
    /\ res[q].op = "createTicket" /\ res[q].out = "SeatInactive"
    /\ Len(tickets) = 1

\* C28. Ticket lifecycle: a Ticket's status is changed only by the status
\* propagator (to PAID, when nothing is due), by cancelTicket (to CANCELLED)
\* and by markNoShow (to NO_SHOW), and no Ticket record is ever deleted; this
\* holds for every operation the sales module exposes, update, partial_update
\* and destroy of the ticket endpoint included.
TicketLifecycle ==
  [][/\ Len(tickets') >= Len(tickets)
     /\ \A t \in 1..Len(tickets) :
          (t <= Len(tickets') /\ tickets'[t].status # tickets[t].status) =>
            \/ /\ tickets'[t].status = PAID
               /\ AmountDueIn(payments', refunds', t) = 0
               /\ \A p \in Procs : res'[p].op \notin {"updateTicket", "destroyTicket"}
            \/ /\ tickets'[t].status = CANCELLED
               /\ \E p \in Procs : pc[p] = "cn_body" /\ pc'[p] = "idle" /\ arg[p].t = t
            \/ /\ tickets'[t].status = NO_SHOW
               /\ \E p \in Procs : pc[p] = "ns_body" /\ pc'[p] = "idle" /\ arg[p].t = t]_vars

\* The status of payment pm agrees with the total of its CONFIRMED refunds.
StatusAgrees(pm) ==
  LET refunded == RefundedTotal(pm)
      pay == payments[pm]
  IN /\ pay.status = PARTIALLY_REFUNDED <=> (0 < refunded /\ refunded < pay.amount)
     /\ pay.status = REFUNDED <=> refunded = pay.amount
     /\ pay.status = CONFIRMED => refunded = 0

\* C29. Payment status agrees with its refunds: in every reachable state a
\* payment is PARTIALLY_REFUNDED exactly when the total of its CONFIRMED
\* refunds is above 0 and below its amount, REFUNDED exactly when that total
\* equals its amount, and a CONFIRMED payment has no CONFIRMED refund; no
\* operation other than createRefund moves a payment into or out of
\* PARTIALLY_REFUNDED or REFUNDED.
PaymentStatusAgrees ==
  /\ [](\A pm \in 1..Len(payments) : StatusAgrees(pm))
  /\ [][\A pm \in 1..Len(payments) :
          (/\ payments'[pm].status # payments[pm].status
           /\ {payments[pm].status, payments'[pm].status}
                \cap {PARTIALLY_REFUNDED, REFUNDED} # {}) =>
            \E p \in Procs : pc[p] = "rf_commit" /\ pc'[p] = "idle" /\ arg[p].pm = pm]_vars

\* The payments of ticket t.
PaymentsOf(t) == {i \in 1..Len(payments) : payments[i].ticket = t}

\* The ticket is as after the one confirmed payment pm alone.
AsAfterOnly(t, pm) ==
  /\ payments[pm].status = CONFIRMED /\ payments[pm].paid_at # None
  /\ AmountPaid(t) = payments[pm].amount
  /\ IF payments[pm].amount = tickets[t].price
     THEN tickets[t].status = PAID /\ tickets[t].paid_at # None
     ELSE tickets[t].status = RESERVED /\ tickets[t].paid_at = None

\* Two confirmPayment calls that overlapped, on the only two payments of a
\* live ticket without refunds, each amount within the price, their sum not.
TwoConfirmsCompete(p, q) ==
  /\ res[p].op = "confirmPayment" /\ res[q].op = "confirmPayment"
  /\ res[p].a.pm # res[q].a.pm
  /\ LET t == payments[res[p].a.pm].ticket
     IN /\ PaymentsOf(t) = {res[p].a.pm, res[q].a.pm}
        /\ tickets[t].status \in {RESERVED, PAID}
        /\ Len(refunds) = 0
        /\ payments[res[p].a.pm].amount \in 1..tickets[t].price
        /\ payments[res[q].a.pm].amount \in 1..tickets[t].price
        /\ payments[res[p].a.pm].amount + payments[res[q].a.pm].amount > tickets[t].price

\* A confirmPayment of p overlapped a confirmed recordPayment of q on a live
\* ticket without refunds and without other payments, each amount within the
\* price, their sum not.
ConfirmAndRecordCompete(p, q) ==
  /\ res[p].op = "confirmPayment" /\ res[q].op = "recordPayment"
  /\ res[q].a.confirm
  /\ LET t == res[q].a.t
         pm == res[p].a.pm
     IN /\ payments[pm].ticket = t
        /\ PaymentsOf(t) \subseteq {pm, res[q].id}
        /\ tickets[t].status \in {RESERVED, PAID}
        /\ Len(refunds) = 0
        /\ payments[pm].amount \in 1..tickets[t].price
        /\ res[q].a.amount \in 1..tickets[t].price
        /\ payments[pm].amount + res[q].a.amount > tickets[t].price

RefundDependsOnlyOnPayment ==
  [][\A p \in Procs :
       /\ (/\ pc[p] = "rf_body" /\ pc'[p] = "idle"
           /\ res'[p].a.confirm
           /\ payments[arg[p].pm].status \in {CONFIRMED, PARTIALLY_REFUNDED}
           /\ res'[p].a.amount > 0
           /\ res'[p].a.amount <= payments[arg[p].pm].amount - RefundedTotal(arg[p].pm))
          => res'[p].out = "ok"
       /\ (pc[p] = "rf_commit" /\ pc'[p] = "idle" /\ arg[p].confirm)
          => refunds'[Len(refunds')].status = CONFIRMED]_vars

\* C32. A cancelled ticket holds no money: in every state, under any
\* interleaving of cancelTicket with recordPayment, confirmPayment and
\* createRefund, every ticket with status CANCELLED has amount_paid 0.
CancelledHoldsNoMoney ==
  \A t \in 1..Len(tickets) :
    tickets[t].status = CANCELLED =>
      SumSeq(payments, LAMBDA i : payments[i].ticket = t /\ payments[i].status \in ConfirmedClass, 1)
        - SumSeq(refunds, LAMBDA i : payments[refunds[i].payment].ticket = t
                                     /\ refunds[i].status = CONFIRMED, 1) = 0

\* A cancellation overlapped a confirmation of a payment of the same ticket:
\* the ticket is CANCELLED and the confirmation was rejected.
ConfirmLostToCancel ==
  \E p, q \in Procs :
    /\ res[p].op = "cancelTicket" /\ res[p].out = "ok"
    /\ res[q].op = "confirmPayment" /\ res[q].out = "TicketNotPayable"
    /\ payments[res[q].a.pm].ticket = res[p].a.t
    /\ payments[res[q].a.pm].amount > 0
    /\ tickets[res[p].a.t].status = CANCELLED

\* C33. CANCELLED is terminal: once a ticket's status is CANCELLED in a
\* committed state, no step of createTicket, recordPayment, confirmPayment,
\* createRefund, cancelTicket or markNoShow, in any interleaving, changes
\* that ticket's status again.
CancelledIsTerminal ==
  [][\A t \in 1..Len(tickets) :
       tickets[t].status = CANCELLED =>
         Len(tickets') >= t /\ tickets'[t].status = CANCELLED]_vars

\* markNoShow was called on a cancelled ticket and rejected; the ticket is
\* still CANCELLED.
NoShowOfCancelledRejected ==
  \E p \in Procs :
    /\ res[p].op = "markNoShow" /\ res[p].out = "InvalidStateTransition"
    /\ tickets[res[p].a.t].status = CANCELLED

\* C34. A committed no-show is not overwritten: once a ticket is NO_SHOW, the
\* only step that changes its status is the commit of a cancelTicket; a
\* createRefund or payment transaction that read the ticket earlier does not
\* write RESERVED or PAID back over NO_SHOW.
NoShowNotOverwritten ==
  [][\A t \in 1..Len(tickets) :
       (tickets[t].status = NO_SHOW /\ tickets'[t].status # NO_SHOW) =>
         \E p \in Procs : pc[p] = "cn_body" /\ pc'[p] = "idle" /\ arg[p].t = t]_vars

\* C35. PAID implies a payment timestamp: in every state, for a ticket
\* created by createTicket with any allowed initialStatus and subjected to
\* any sequence of ledger operations, status PAID implies paid_at non-null.
PaidHasTimestamp ==
  \A t \in 1..Len(tickets) : tickets[t].status = PAID => tickets[t].paid_at # None

\* C36. A pending payment moves no money: recordPayment with
\* confirmImmediately=false on a ticket that accepts payments succeeds for
\* any positive amount (no overpayment check), persists a Payment with
\* status PENDING and paid_at null, and leaves amount_paid (so amount_due),
\* status and paid_at of the ticket unchanged.
PendingPaymentMovesNoMoney ==
  [][\A p \in Procs :
       (/\ pc[p] = "rp_body" /\ pc'[p] = "idle"
        /\ ~res'[p].a.confirm
        /\ res'[p].a.amount > 0
        /\ tickets[arg[p].t].status \notin {CANCELLED, NO_SHOW}) =>
         /\ res'[p].out = "ok"
         /\ payments' = Append(payments, [ticket |-> arg[p].t, amount |-> res'[p].a.amount,
                                          txid |-> arg[p].txid, status |-> PENDING,
                                          paid_at |-> None])
         /\ tickets' = tickets /\ refunds' = refunds
         /\ SumSeq(payments', LAMBDA i : payments'[i].ticket = arg[p].t
                                         /\ payments'[i].status \in ConfirmedClass, 1)
              = SumSeq(payments, LAMBDA i : payments[i].ticket = arg[p].t
                                            /\ payments[i].status \in ConfirmedClass, 1)]_vars

\* C37. Payment.paid_at marks confirmation: in every state a PENDING payment
\* has paid_at null and a CONFIRMED, PARTIALLY_REFUNDED or REFUNDED payment
\* has paid_at non-null; once set, paid_at is not changed by a later
\* confirmPayment or createRefund.
PaymentPaidAtMarksConfirmation ==
  /\ [](\A pm \in 1..Len(payments) :
          /\ payments[pm].status = PENDING => payments[pm].paid_at = None
          /\ payments[pm].status \in {CONFIRMED, PARTIALLY_REFUNDED, REFUNDED} =>
               payments[pm].paid_at # None)
  /\ [][\A pm \in 1..Len(payments) :
          payments[pm].paid_at # None => payments'[pm].paid_at = payments[pm].paid_at]_vars

\* A payment confirmed earlier went through a refund and a later
\* confirmPayment and still carries its first paid_at.
ConfirmedAgainKeepsPaidAt ==
  \E p \in Procs :
    /\ res[p].op = "confirmPayment" /\ res[p].out = "ok"
    /\ payments[res[p].a.pm].status = CONFIRMED
    /\ \E r \in 1..Len(refunds) : refunds[r].payment = res[p].a.pm /\ refunds[r].status = CONFIRMED
    /\ payments[res[p].a.pm].paid_at # None
    /\ payments[res[p].a.pm].paid_at < Now - 1

\* The payment pm has a receipt in the given receipt table.
HasReceiptIn(rcs, pm) == \E i \in 1..Len(rcs) : rcs[i].payment = pm

\* C38. The artifact-build callback is scheduled at most once per payment:
\* only the step of issueReceipt that persists the Receipt schedules it (and a
\* receipt, once persisted, stays, so no later call persists another one), and
\* a call that returns the already existing Receipt schedules and runs none,
\* also when the callback of the first call failed.
CallbackScheduledOnce ==
  /\ [][\A p \in Procs :
          (pc[p] # "is_callback" /\ pc'[p] = "is_callback") =>
            /\ pc[p] = "is_body"
            /\ ~HasReceiptIn(receipts, arg[p].pm)
            /\ receipts' = Append(receipts, receipts'[Len(receipts')])
            /\ receipts'[Len(receipts')].payment = arg[p].pm
            /\ loc'[p].id = Len(receipts')]_vars
  /\ [][\A i \in 1..Len(receipts) :
          Len(receipts') >= i /\ receipts'[i] = receipts[i]]_vars
  /\ [][\A p \in Procs :
          (pc[p] = "is_body" /\ HasReceiptIn(receipts, arg[p].pm)) =>
            (pc'[p] \in {"is_body", "idle"}
             /\ (pc'[p] = "idle" => res'[p].a.artifact = "none"))]_vars

\* Two overlapping issueReceipt calls for one payment: the callback of the
\* call that persisted the Receipt failed, and the other call returned that
\* Receipt without a callback.
FailedCallbackNotRescheduled ==
  \E p, q \in Procs :
    /\ res[p].op = "issueReceipt" /\ res[p].out = "ok" /\ res[p].a.artifact = "failed"
    /\ res[q].op = "issueReceipt" /\ res[q].out = "ok" /\ res[q].a.artifact = "none"
    /\ res[p].a.pm = res[q].a.pm
    /\ res[p].id = res[q].id
    /\ res[p].id \in 1..Len(receipts)
    /\ receipts[res[p].id].payment = res[p].a.pm

\* The buses of the table and the uncommitted ones, as rows.
AllBusRows ==
  {buses[i] : i \in 1..Len(buses)}
    \cup {[code |-> loc[q].code, plate |-> arg[q].plate, chassis |-> arg[q].chassis] :
            q \in {r \in Procs : pc[r] = "cb_seats"}}

\* C39. create_bus_with_code makes at most `retries` insert attempts and then
\* either returns a persisted Bus or raises IntegrityError; under any
\* interleaving of concurrent calls no two persisted buses share a code
\* (committed or not), and a call that lost a code to another process
\* retries with a freshly computed next code: every insert uses the code
\* that follows the last code of the buses read after the last failure.
BusCodesUniqueWithRetries ==
  /\ [](\A p \in Procs :
          pc[p] \in {"cb_next", "cb_insert", "cb_seats"} => arg[p].attempts <= arg[p].retries)
  /\ [](/\ \A i, j \in 1..Len(buses) : buses[i].code = buses[j].code => i = j
        /\ Cardinality({r.code : r \in AllBusRows})
             = Len(buses) + Cardinality({r \in Procs : pc[r] = "cb_seats"}))
  /\ [][\A p \in Procs :
          (pc[p] \in {"cb_next", "cb_insert"} /\ pc'[p] \notin {"cb_next", "cb_insert"}) =>
            \/ /\ pc[p] = "cb_insert" /\ pc'[p] = "cb_seats"
               /\ arg'[p].attempts \in 1..arg[p].retries
               /\ loc'[p].code = loc[p].code
            \/ /\ pc[p] = "cb_next" /\ pc'[p] = "idle"
               /\ res'[p].out = "IntegrityError"
               /\ res'[p].a.attempts = res'[p].a.retries
               /\ buses' = buses]_vars
  /\ [][\A p \in Procs :
          (pc[p] = "cb_insert" /\ arg'[p] # arg[p]) =>
            /\ loc[p].seen >= loc[p].lost
            /\ loc[p].seen <= Len(buses)
            /\ LET read == SubSeq(buses, 1, loc[p].seen)
               IN loc[p].code = IF read = <<>> THEN FormatCode(1)
                                ELSE FormatCode(ParseCode(LastCode(read)) + 1)]_vars

\* Two overlapping calls with different plates and chassis numbers computed
\* the same code: one call lost it, retried with the next code, and both buses
\* are committed under different codes.
LostCodeRetriedWithNext ==
  \E p, q \in Procs :
    /\ res[p].op = "createBus" /\ res[p].out = "ok" /\ res[p].a.attempts = 2
    /\ res[q].op = "createBus" /\ res[q].out = "ok" /\ res[q].a.attempts = 1
    /\ res[p].a.plate # res[q].a.plate /\ res[p].a.chassis # res[q].a.chassis
    /\ res[p].id = res[q].id + 1
    /\ ParseCode(buses[res[p].id].code) = ParseCode(buses[res[q].id].code) + 1

====
